---- MODULE Spec2Model ----
(***************************************************************************)
(* Dense n-dimensional matrix storage (ext/nmatrix/storage/dense.cpp).     *)
(*                                                                         *)
(* The heap is modelled explicitly: DENSE_STORAGE records, size_t arrays   *)
(* (shape, offset, slice coords and lens) and element buffers are separate *)
(* objects named by their address (an index, 0 is NULL), so that pointer   *)
(* aliasing, free() and reference counts are what the code makes them.     *)
(* An element buffer is a sequence of bytes; a dtype gives the number of   *)
(* bytes of one element and the way they are read.                         *)
(***************************************************************************)
EXTENDS Integers, Sequences, FiniteSets, TLC

VARIABLES stor, arrs, bufs, slices, ret

vars == <<stor, arrs, bufs, slices, ret>>

NULL == 0

(***************************************************************************)
(* Bounds of the model.                                                    *)
(***************************************************************************)
\* storages (roots and views) ever allocated in one run
MaxStor == 3
\* slices the caller ever builds in one run
MaxSlices == 1
\* storages of one layout run
PosMaxStor == 2
\* elements written in one layout run
PosMaxWrites == 1
\* largest element count of a root in the equality, copy and cast runs
EqMaxCount == 2
\* largest element count of a root in the tiling runs
MaxCount == 4
\* longest initial payload handed to dense_storage_create in the tiling runs
MaxPay == 4

(***************************************************************************)
(* Sequence helpers.                                                       *)
(***************************************************************************)
RECURSIVE SeqSum(_)
SeqSum(s) == IF s = <<>> THEN 0 ELSE Head(s) + SeqSum(Tail(s))

RECURSIVE Flatten(_)
Flatten(ss) == IF ss = <<>> THEN <<>> ELSE Head(ss) \o Flatten(Tail(ss))

Max(a, b) == IF a > b THEN a ELSE b

\* all sequences over S of length n
SeqsOfLen(S, n) == [1..n -> S]

\* all sequences over S of length lo..hi
SeqsUpTo(S, lo, hi) == UNION { SeqsOfLen(S, n) : n \in lo..hi }

(***************************************************************************)
(* Dtype registry.  Four of the registered dtypes are modelled, with their *)
(* byte sizes: an unsigned byte, a signed 16-bit integer, a 32-bit float   *)
(* and a complex number of two 32-bit floats.                              *)
(***************************************************************************)
DTYPE_SIZES(dt) ==
  CASE dt = "BYTE"      -> 1
    [] dt = "INT16"     -> 2
    [] dt = "FLOAT32"   -> 4
    [] dt = "COMPLEX64" -> 8

\* IEEE-754 binary32 bit patterns, little-endian bytes
F_PZERO == <<0, 0, 0, 0>>
F_NZERO == <<0, 0, 0, 128>>
F_ONE   == <<0, 0, 128, 63>>
F_MONE  == <<0, 0, 128, 191>>
F_NAN   == <<0, 0, 192, 127>>

\* exponent all ones and a non-zero mantissa
FloatIsNaN(f) == /\ f[4] % 128 = 127
                 /\ f[3] >= 128
                 /\ (f[3] % 128 # 0 \/ f[2] # 0 \/ f[1] # 0)

FloatIsZero(f) == f[1] = 0 /\ f[2] = 0 /\ f[3] = 0 /\ f[4] % 128 = 0

\* operator== of float: no NaN equals anything, the two zeros are equal
FloatEq(a, b) == /\ ~FloatIsNaN(a)
                 /\ ~FloatIsNaN(b)
                 /\ (a = b \/ (FloatIsZero(a) /\ FloatIsZero(b)))

\* unary minus of a float flips the sign bit
FloatNeg(f) == [f EXCEPT ![4] = (f[4] + 128) % 256]

\* The bytes of one element of dtype dt holding value v.
Encode(dt, v) ==
  CASE dt = "BYTE"      -> << v % 256 >>
    [] dt = "INT16"     -> << (v % 65536) % 256, (v % 65536) \div 256 >>
    [] dt = "FLOAT32"   -> v
    [] dt = "COMPLEX64" -> v.r \o v.i

\* The value of the dtype-dt element whose bytes are b.
Decode(dt, b) ==
  CASE dt = "BYTE"      -> b[1]
    [] dt = "INT16"     -> LET u == b[1] + 256 * b[2]
                           IN IF u >= 32768 THEN u - 65536 ELSE u
    [] dt = "FLOAT32"   -> b
    [] dt = "COMPLEX64" -> [r |-> SubSeq(b, 1, 4), i |-> SubSeq(b, 5, 8)]

EncodeAll(dt, vs) == Flatten([k \in 1..Len(vs) |-> Encode(dt, vs[k])])

\* A read of byte address a (0-based) of a buffer: g when it is outside it.
ByteAt(data, a, g) == IF a + 1 \in 1..Len(data) THEN data[a + 1] ELSE g

\* ((T*)elements)[i] for T the representation of dtype dt.
ReadEl(dt, data, i, g) ==
  Decode(dt, [k \in 1..DTYPE_SIZES(dt) |-> ByteAt(data, i * DTYPE_SIZES(dt) + k - 1, g)])

\* memcpy(dst + doff, src + soff, n), in bytes; a byte written outside dst is lost.
Memcpy(dst, doff, src, soff, n, g) ==
  [a \in 1..Len(dst) |->
     IF a - 1 >= doff /\ a - 1 < doff + n
     THEN ByteAt(src, soff + (a - 1 - doff), g)
     ELSE dst[a]]

\* ((T*)elements)[i] = v
WriteEl(dt, data, i, v) ==
  Memcpy(data, i * DTYPE_SIZES(dt), Encode(dt, v), 0, DTYPE_SIZES(dt), 0)

\* Values an uninitialized byte or field may hold.
GarbageByte == {0, 255}
GarbageCount == {0, 7}

(***************************************************************************)
(* Heap.                                                                   *)
(***************************************************************************)
Live(heap, p) == p \in 1..Len(heap) /\ heap[p].frees = 0

\* free(p): free(NULL) does nothing
Free(heap, p) ==
  IF p \in 1..Len(heap) THEN [heap EXCEPT ![p].frees = @ + 1] ELSE heap

RECURSIVE FreeAll(_, _)
FreeAll(heap, ps) ==
  IF ps = <<>> THEN heap ELSE FreeAll(Free(heap, Head(ps)), Tail(ps))

ArrData(p) == arrs[p].data

\* the bytes of the buffer at p: none at NULL
BufData(p) == IF p = NULL THEN <<>> ELSE bufs[p].data

\* product of the extents
RECURSIVE storage_count_max_elements(_, _)
storage_count_max_elements(rank, shape) ==
  IF rank = 0 THEN 1 ELSE shape[rank] * storage_count_max_elements(rank - 1, shape)

IsRoot(s) == s \in 1..Len(stor) /\ stor[s].made = "create"
IsView(s) == s \in 1..Len(stor) /\ stor[s].made = "get"
LiveStor(s) == Live(stor, s)

(***************************************************************************)
(* dense_storage_create                                                    *)
(***************************************************************************)
\* the tiling loop without the truncation of the last tile
RECURSIVE dense_storage_create_loop_untruncated(_, _, _, _, _)
dense_storage_create_loop_untruncated(i, count, elements_length, copy_length, calls) ==
  IF i < count
  THEN dense_storage_create_loop_untruncated(
         i + elements_length, count, elements_length, copy_length,
         Append(calls, [dst |-> i, src |-> i % elements_length, n |-> copy_length]))
  ELSE calls

\* The memcpy calls of the tiling loop, in elements: <<dst, src, n>> each.
RECURSIVE dense_storage_create_loop(_, _, _, _, _)
dense_storage_create_loop(i, count, elements_length, copy_length, calls) ==
  IF i < count
  THEN LET cl == IF i + elements_length > count THEN count - i ELSE copy_length
       IN dense_storage_create_loop(
            i + elements_length, count, elements_length, cl,
            Append(calls, [dst |-> i, src |-> i % elements_length, n |-> cl]))
  ELSE calls

RECURSIVE ApplyCopies(_, _, _, _, _)
ApplyCopies(dst, src, calls, size, g) ==
  IF calls = <<>> THEN dst
  ELSE ApplyCopies(
         Memcpy(dst, Head(calls).dst * size, src, Head(calls).src * size,
                Head(calls).n * size, g),
         src, Tail(calls), size, g)

\* one past the highest element index a list of memcpy calls writes
RECURSIVE HighWrite(_)
HighWrite(calls) ==
  IF calls = <<>> THEN 0
  ELSE Max(Head(calls).dst + Head(calls).n, HighWrite(Tail(calls)))

\* The heap after dense_storage_create(dtype, shape, rank, elements,
\* elements_length), shape and elements being addresses the caller owns; g is
\* what the bytes of a fresh buffer hold.
dense_storage_create(st, ar, bu, dtype, shape, rank, elements, elements_length, g) ==
  LET s      == Len(st) + 1
      offset == Len(ar) + 1
      ar1    == Append(ar, [frees |-> 0, data |-> [k \in 1..rank |-> 0]])
      count  == storage_count_max_elements(rank, ar[shape].data)
      size   == DTYPE_SIZES(dtype)
      calls  == IF elements_length > 0
                THEN dense_storage_create_loop(0, count, elements_length,
                                               elements_length, <<>>)
                ELSE <<>>
      fresh  == [a \in 1..(size * count) |-> g]
      filled == IF elements_length > 0
                THEN ApplyCopies(fresh, bu[elements].data, calls, size, g)
                ELSE fresh
      adopt  == elements_length = count
      bu1    == IF adopt THEN bu
                ELSE LET b == Append(bu, [frees |-> 0, data |-> filled])
                     IN IF elements_length > 0 THEN Free(b, elements) ELSE b
      els    == IF adopt THEN elements ELSE Len(bu) + 1
  IN [stor |-> Append(st, [frees |-> 0, made |-> "create", rank |-> rank,
                           shape |-> shape, dtype |-> dtype, offset |-> offset,
                           count |-> 1, src |-> s, elements |-> els]),
      arrs |-> ar1,
      bufs |-> bu1,
      s    |-> s,
      calls |-> IF adopt THEN <<>> ELSE calls]

\* The caller builds a shape array and an initial payload (none when pay is
\* empty) and creates a root from them.
Create(dtype, shp, pay) ==
  /\ Len(stor) < MaxStor
  /\ \E g \in GarbageByte :
       LET shape == Len(arrs) + 1
           ar0   == Append(arrs, [frees |-> 0, data |-> shp])
           elements == IF pay = <<>> THEN NULL ELSE Len(bufs) + 1
           bu0   == IF pay = <<>> THEN bufs
                    ELSE Append(bufs, [frees |-> 0, data |-> EncodeAll(dtype, pay)])
           h     == dense_storage_create(stor, ar0, bu0, dtype, shape, Len(shp),
                                         elements, Len(pay), g)
       IN /\ stor' = h.stor
          /\ arrs' = h.arrs
          /\ bufs' = h.bufs
          /\ ret' = [op |-> "create", s |-> h.s, pay |-> pay,
                     high |-> HighWrite(h.calls)]
  /\ UNCHANGED slices

(***************************************************************************)
(* The caller builds a SLICE: coords, lens and the single-element flag.    *)
(***************************************************************************)
MakeSlice(coords, lens, is_one_el) ==
  /\ Len(slices) < MaxSlices
  /\ arrs' = arrs \o << [frees |-> 0, data |-> coords], [frees |-> 0, data |-> lens] >>
  /\ slices' = Append(slices, [coords |-> Len(arrs) + 1, lens |-> Len(arrs) + 2,
                               is_one_el |-> is_one_el])
  /\ ret' = [op |-> "slice"]
  /\ UNCHANGED <<stor, bufs>>

(***************************************************************************)
(* dense_storage_delete, dense_storage_delete_ref                          *)
(***************************************************************************)
dense_storage_delete_frees(s) == stor[s].count <= 1

dense_storage_delete(s) ==
  /\ LiveStor(s)
  /\ IsRoot(s)
  /\ IF dense_storage_delete_frees(s)
     THEN /\ arrs' = FreeAll(arrs, <<stor[s].shape, stor[s].offset>>)
          /\ bufs' = Free(bufs, stor[s].elements)
          /\ stor' = Free(stor, s)
     ELSE UNCHANGED <<stor, arrs, bufs>>
  /\ ret' = [op |-> "delete"]
  /\ UNCHANGED slices

\* the count of the storage s->src after ((DENSE_STORAGE*)s->src)->count--
dense_storage_delete_ref_count(s) == stor[stor[s].src].count - 1

dense_storage_delete_ref(s) ==
  /\ LiveStor(s)
  /\ IsView(s)
  /\ stor' = Free([stor EXCEPT ![stor[s].src].count = dense_storage_delete_ref_count(s)], s)
  /\ arrs' = FreeAll(arrs, <<stor[s].shape, stor[s].offset>>)
  /\ ret' = [op |-> "delete_ref"]
  /\ UNCHANGED <<bufs, slices>>

(***************************************************************************)
(* dense_storage_pos, dense_storage_get, dense_storage_set                 *)
(***************************************************************************)
\* the strides taken from the storage's own shape instead of its src's
dense_storage_pos_shape_own(s) == ArrData(stor[s].shape)

\* the shape whose extents are the strides: ((DENSE_STORAGE*)s->src)->shape
dense_storage_pos_shape(s) == ArrData(stor[stor[s].src].shape)

RECURSIVE dense_storage_pos_inner(_, _, _, _)
dense_storage_pos_inner(inner, l, rank, shape) ==
  IF l < rank
  THEN dense_storage_pos_inner(inner * shape[l + 1], l + 1, rank, shape)
  ELSE inner

\* k runs from rank-1 down to 0 (0-based, as in the code)
RECURSIVE dense_storage_pos_outer(_, _, _, _)
dense_storage_pos_outer(s, coords, k, outer) ==
  IF k > 0
  THEN dense_storage_pos_outer(
         s, coords, k - 1,
         outer + dense_storage_pos_inner(coords[k] + ArrData(stor[s].offset)[k],
                                         k, stor[s].rank,
                                         dense_storage_pos_shape(s)))
  ELSE outer

\* coords is the contents of slice->coords
dense_storage_pos(s, coords) == dense_storage_pos_outer(s, coords, stor[s].rank, 0)

\* s->count++ left out
dense_storage_get_count_forgotten(s) == stor[s].count

\* the count of s after s->count++
dense_storage_get_count(s) == stor[s].count + 1

\* the storage the new view's src names
dense_storage_get_src(s) == s

\* the addresses the new view takes as its shape and offset
dense_storage_get_shape(sl) == slices[sl].lens
dense_storage_get_offset(sl) == slices[sl].coords

\* dense_storage_get with slice->is_one_el false: a new view
dense_storage_get_ref(s, sl) ==
  /\ LiveStor(s)
  /\ sl \in 1..Len(slices)
  /\ ~slices[sl].is_one_el
  /\ Len(ArrData(slices[sl].lens)) = stor[s].rank
  /\ Len(stor) < MaxStor
  /\ \E c \in GarbageCount :
       stor' = Append([stor EXCEPT ![s].count = dense_storage_get_count(s)],
                      [frees |-> 0, made |-> "get", rank |-> stor[s].rank,
                       shape |-> dense_storage_get_shape(sl),
                       dtype |-> stor[s].dtype,
                       offset |-> dense_storage_get_offset(sl),
                       count |-> c, src |-> dense_storage_get_src(s),
                       elements |-> stor[s].elements])
  /\ ret' = [op |-> "get"]
  /\ UNCHANGED <<arrs, bufs, slices>>

\* whether coords name an element of s: what the caller guarantees
InRange(s, coords) ==
  /\ Len(coords) = stor[s].rank
  /\ Live(arrs, stor[s].shape)
  /\ Live(arrs, stor[s].offset)
  /\ Live(bufs, stor[s].elements)
  /\ LiveStor(stor[s].src)
  /\ Live(arrs, stor[stor[s].src].shape)
  /\ \A k \in 1..stor[s].rank : coords[k] < ArrData(stor[s].shape)[k]

\* dense_storage_get with slice->is_one_el true: the address of one element,
\* as the buffer and the byte offset into it
dense_storage_get_el(s, coords) ==
  /\ LiveStor(s)
  /\ InRange(s, coords)
  /\ ret' = [op |-> "get_el", s |-> s, coords |-> coords,
             buf |-> stor[s].elements,
             at |-> dense_storage_pos(s, coords) * DTYPE_SIZES(stor[s].dtype),
             val |-> ReadEl(stor[s].dtype, BufData(stor[s].elements),
                            dense_storage_pos(s, coords), 0)]
  /\ UNCHANGED <<stor, arrs, bufs, slices>>

dense_storage_set(s, coords, val) ==
  /\ LiveStor(s)
  /\ InRange(s, coords)
  /\ bufs' = [bufs EXCEPT ![stor[s].elements].data =
                Memcpy(@, dense_storage_pos(s, coords) * DTYPE_SIZES(stor[s].dtype),
                       Encode(stor[s].dtype, val), 0, DTYPE_SIZES(stor[s].dtype), 0)]
  /\ ret' = [op |-> "set", s |-> s, coords |-> coords, val |-> val]
  /\ UNCHANGED <<stor, arrs, slices>>

(***************************************************************************)
(* Lifecycle: roots and views are created and destroyed.                   *)
(***************************************************************************)
Init ==
  /\ stor = <<>>
  /\ arrs = <<>>
  /\ bufs = <<>>
  /\ slices = <<>>
  /\ ret = [op |-> "none"]

LifeCreate == Create("BYTE", <<2>>, <<1>>)
LifeSlice == MakeSlice(<<1>>, <<1>>, FALSE)
LifeGet == \E s \in 1..Len(stor), sl \in 1..Len(slices) : dense_storage_get_ref(s, sl)
LifeDeleteRef == \E s \in 1..Len(stor) : dense_storage_delete_ref(s)
LifeDelete == \E s \in 1..Len(stor) : dense_storage_delete(s)

Next == LifeCreate \/ LifeSlice \/ LifeGet \/ LifeDeleteRef \/ LifeDelete

Spec == Init /\ [][Next]_vars

\* the live views whose src is r
ViewsOf(r) == { v \in 1..Len(stor) : LiveStor(v) /\ IsView(v) /\ stor[v].src = r }

\* C1: a live root's count is 1 plus the number of live views created from it
\* (each dense_storage_get on it added 1, each dense_storage_delete_ref of such
\* a view took 1 away), and deleting views never freed its element buffer.
C1_RootCount ==
  \A r \in 1..Len(stor) :
    (LiveStor(r) /\ IsRoot(r)) =>
      /\ stor[r].count = 1 + Cardinality(ViewsOf(r))
      /\ Live(bufs, stor[r].elements)

\* a root with one live view left after another view of it was destroyed
C1_Witness ==
  \E r \in 1..Len(stor), v, w \in 1..Len(stor) :
    /\ LiveStor(r) /\ IsRoot(r) /\ stor[r].count = 2
    /\ IsView(v) /\ ~LiveStor(v) /\ stor[v].src = r
    /\ IsView(w) /\ LiveStor(w) /\ stor[w].src = r

\* C2: every view's src is a root: a storage that is its own src and was
\* made by dense_storage_create.
C2_SrcIsRoot ==
  \A v \in 1..Len(stor) :
    (LiveStor(v) /\ IsView(v)) =>
      /\ IsRoot(stor[v].src)
      /\ stor[stor[v].src].src = stor[v].src

\* C3: no element buffer is freed twice, and no live view holds a freed buffer.
C3_NoUseAfterFree ==
  /\ \A b \in 1..Len(bufs) : bufs[b].frees <= 1
  /\ \A v \in 1..Len(stor) :
       (LiveStor(v) /\ IsView(v)) => Live(bufs, stor[v].elements)

\* C4: a view's shape and offset are arrays of its own, never the slice's lens
\* and coords, and the slice's arrays outlive the view.
C4_OwnShapeOffset ==
  \A sl \in 1..Len(slices) :
    /\ Live(arrs, slices[sl].lens)
    /\ Live(arrs, slices[sl].coords)
    /\ \A v \in 1..Len(stor) :
         (LiveStor(v) /\ IsView(v)) =>
           /\ stor[v].shape # slices[sl].lens
           /\ stor[v].offset # slices[sl].coords

(***************************************************************************)
(* Layout: single elements are read and written through roots and views.   *)
(***************************************************************************)
\* shapes, coordinates and lengths of the layout runs
PosShapes == {<<3>>, <<2, 3>>, <<2, 2, 2>>}
PosCoords == SeqsUpTo(0..1, 1, 3)
PosLens == {[k \in 1..n |-> e] : n \in 1..3, e \in 1..2}

\* the slice lies inside s: what the caller of dense_storage_get guarantees
SliceInRange(s, sl) ==
  /\ Live(arrs, stor[s].shape)
  /\ Len(ArrData(slices[sl].coords)) = stor[s].rank
  /\ \A k \in 1..stor[s].rank :
       ArrData(slices[sl].coords)[k] + ArrData(slices[sl].lens)[k]
         <= ArrData(stor[s].shape)[k]

\* the number of non-zero bytes of a buffer
Written(data) == Cardinality({a \in 1..Len(data) : data[a] # 0})

\* a layout run has one root and one slice
PosCreate == \E shp \in PosShapes : stor = <<>> /\ Create("BYTE", shp, <<0>>)
PosSlice ==
  \E c \in PosCoords, l \in PosLens :
    /\ Len(stor) > 0
    /\ Len(c) = stor[1].rank
    /\ Len(l) = stor[1].rank
    /\ \A k \in 1..Len(c) : c[k] + l[k] <= ArrData(stor[1].shape)[k]
    /\ slices = <<>>
    /\ MakeSlice(c, l, FALSE)
PosGet ==
  \E s \in 1..Len(stor), sl \in 1..Len(slices) :
    /\ LiveStor(s)
    /\ ~slices[sl].is_one_el
    /\ SliceInRange(s, sl)
    /\ Len(stor) < PosMaxStor
    /\ dense_storage_get_ref(s, sl)
PosGetEl ==
  \E s \in 1..Len(stor), c \in PosCoords :
    /\ ret.op = "set"
    /\ dense_storage_get_el(s, c)
PosSet ==
  \E s \in 1..Len(stor), c \in PosCoords :
    /\ Written(BufData(stor[s].elements)) < PosMaxWrites
    /\ dense_storage_set(s, c, 1)

PosNext == PosCreate \/ PosSlice \/ PosGet \/ PosGetEl \/ PosSet

SpecPos == Init /\ [][PosNext]_vars

\* the product of shape[lo..hi]
RECURSIVE ExtentProduct(_, _, _)
ExtentProduct(shape, lo, hi) ==
  IF lo > hi THEN 1 ELSE shape[lo] * ExtentProduct(shape, lo + 1, hi)

\* the row-major position of coords + offset under the strides of shape
RowMajor(coords, offset, shape) ==
  SeqSum([k \in 1..Len(coords) |->
            (coords[k] + offset[k]) * ExtentProduct(shape, k + 1, Len(coords))])

AddSeq(a, b) == [k \in 1..Len(a) |-> a[k] + b[k]]

\* the coordinates that name an element of s
CoordsOf(s) == {c \in PosCoords : InRange(s, c)}

\* C10: dense_storage_pos is the row-major position of coords + offset under
\* the strides of the shape of s->src; the address dense_storage_get returns
\* for one element is that position; and what dense_storage_set writes
\* through a view made from a root at c is what dense_storage_get reads
\* through the root at c + offset.
C10_Position ==
  /\ \A s \in 1..Len(stor) : \A c \in CoordsOf(s) :
       dense_storage_pos(s, c) =
         RowMajor(c, ArrData(stor[s].offset), ArrData(stor[stor[s].src].shape))
  /\ ret.op = "get_el" =>
       /\ ret.at = DTYPE_SIZES(stor[ret.s].dtype)
                   * RowMajor(ret.coords, ArrData(stor[ret.s].offset),
                              ArrData(stor[stor[ret.s].src].shape))
       /\ ret.val = Decode(stor[ret.s].dtype,
                           SubSeq(BufData(ret.buf), ret.at + 1,
                                  ret.at + DTYPE_SIZES(stor[ret.s].dtype)))
  /\ \A v \in 1..Len(stor) :
       (IsView(v) /\ IsRoot(stor[v].src)) =>
         \A c \in CoordsOf(v) :
           LET r == stor[v].src
               rc == AddSeq(c, ArrData(stor[v].offset))
           IN /\ dense_storage_pos(v, c) = dense_storage_pos(r, rc)
              /\ (ret.op = "set" /\ ret.s = v /\ ret.coords = c) =>
                   ReadEl(stor[r].dtype, BufData(stor[r].elements),
                          dense_storage_pos(r, rc), 0) = ret.val

\* an element was written through a view of a rank-3 root whose offset is not
\* zero in the first dimension
C10_Witness ==
  /\ ret.op = "set"
  /\ IsView(ret.s)
  /\ IsRoot(stor[ret.s].src)
  /\ stor[ret.s].rank = 3
  /\ ArrData(stor[ret.s].offset)[1] = 1
  /\ ArrData(stor[ret.s].offset)[3] = 1
  /\ BufData(stor[ret.s].elements)[6] = 1

(***************************************************************************)
(* Tiling: a root is created from an initial payload of any length.        *)
(***************************************************************************)
FillDtypes == {"BYTE", "INT16"}
FillValues(dt) == IF dt = "BYTE" THEN {1, 2, 3} ELSE {1, 2, 300}
FillShapes == {<<n>> : n \in 0..MaxCount} \cup {<<2, 2>>}

FillCreate ==
  \E dt \in FillDtypes, shp \in FillShapes :
    \E pay \in SeqsUpTo(FillValues(dt), 0, MaxPay) :
      /\ stor = <<>>
      /\ Create(dt, shp, pay)

FillNext == FillCreate

SpecFill == Init /\ [][FillNext]_vars

\* the element count of storage s
CountOf(s) == storage_count_max_elements(stor[s].rank, ArrData(stor[s].shape))

\* C5: a payload of length L > 0 other than the element count N is tiled:
\* the root's buffer holds exactly N elements, element i is payload[i mod L],
\* and no element at index N or above is written.
C5_Tiled ==
  (ret.op = "create" /\ Len(ret.pay) > 0 /\ Len(ret.pay) # CountOf(ret.s)) =>
    LET s == ret.s
        dt == stor[s].dtype
        data == BufData(stor[s].elements)
    IN /\ Live(bufs, stor[s].elements)
       /\ Len(data) = DTYPE_SIZES(dt) * CountOf(s)
       /\ \A i \in 0..(CountOf(s) - 1) :
            Decode(dt, SubSeq(data, i * DTYPE_SIZES(dt) + 1, (i + 1) * DTYPE_SIZES(dt)))
              = ret.pay[(i % Len(ret.pay)) + 1]
       /\ ret.high <= CountOf(s)

\* the payload [1, 2, 300] over four 16-bit elements: the last tile is cut
C5_Witness ==
  /\ ret.op = "create"
  /\ ret.pay = <<1, 2, 300>>
  /\ CountOf(ret.s) = 4
  /\ BufData(stor[ret.s].elements) = <<1, 0, 2, 0, 44, 1, 1, 0>>

\* a payload longer than the buffer: only its first elements are copied
C5_WitnessLong ==
  /\ ret.op = "create"
  /\ ret.pay = <<3, 2, 1>>
  /\ CountOf(ret.s) = 2
  /\ BufData(stor[ret.s].elements) = <<3, 2>>

(***************************************************************************)
(* dense_storage_is_symmetric, dense_storage_is_hermitian                  *)
(***************************************************************************)
IsComplex(dt) == dt = "COMPLEX64"

\* operator!= of DType
ElNe(dt, a, b) ==
  CASE dt \in {"BYTE", "INT16"} -> a # b
    [] dt = "FLOAT32"           -> ~FloatEq(a, b)
    [] dt = "COMPLEX64"         -> ~FloatEq(a.r, b.r) \/ ~FloatEq(a.i, b.i)

\* complex_conj.i = -complex_conj.i
Conj(z) == [z EXCEPT !.i = FloatNeg(@)]

\* the element the Hermitian test conjugates for row i, column j
dense_storage_is_hermitian_index(i, j, lda) == j * lda + 1

\* the inner loop: j from its start while j < shape[1]
RECURSIVE dense_storage_is_hermitian_row(_, _, _, _, _)
dense_storage_is_hermitian_row(data, shape, lda, i, j) ==
  IF j < shape[2]
  THEN LET complex_conj ==
             Conj(ReadEl("COMPLEX64", data, dense_storage_is_hermitian_index(i, j, lda), 0))
       IN IF ElNe("COMPLEX64", ReadEl("COMPLEX64", data, i * lda + j, 0), complex_conj)
          THEN FALSE
          ELSE dense_storage_is_hermitian_row(data, shape, lda, i, j + 1)
  ELSE TRUE

\* the outer loop: i from shape[0] - 1 down to 0 (i is the number of rows left)
RECURSIVE dense_storage_is_hermitian_template(_, _, _, _)
dense_storage_is_hermitian_template(data, shape, lda, i) ==
  IF i > 0
  THEN IF dense_storage_is_hermitian_row(data, shape, lda, i - 1, i)
       THEN dense_storage_is_hermitian_template(data, shape, lda, i - 1)
       ELSE FALSE
  ELSE TRUE

RECURSIVE dense_storage_is_symmetric_row(_, _, _, _, _, _)
dense_storage_is_symmetric_row(dt, data, shape, lda, i, j) ==
  IF j < shape[2]
  THEN IF ElNe(dt, ReadEl(dt, data, i * lda + j, 0), ReadEl(dt, data, j * lda + i, 0))
       THEN FALSE
       ELSE dense_storage_is_symmetric_row(dt, data, shape, lda, i, j + 1)
  ELSE TRUE

RECURSIVE dense_storage_is_symmetric_template(_, _, _, _, _)
dense_storage_is_symmetric_template(dt, data, shape, lda, i) ==
  IF i > 0
  THEN IF dense_storage_is_symmetric_row(dt, data, shape, lda, i - 1, i)
       THEN dense_storage_is_symmetric_template(dt, data, shape, lda, i - 1)
       ELSE FALSE
  ELSE TRUE

\* the value dense_storage_is_symmetric(mat, lda) returns
dense_storage_is_symmetric_value(mat, lda) ==
  dense_storage_is_symmetric_template(stor[mat].dtype, BufData(stor[mat].elements),
                                      ArrData(stor[mat].shape), lda,
                                      ArrData(stor[mat].shape)[1])

\* the value dense_storage_is_hermitian(mat, lda) returns
dense_storage_is_hermitian_value(mat, lda) ==
  IF IsComplex(stor[mat].dtype)
  THEN dense_storage_is_hermitian_template(BufData(stor[mat].elements),
                                           ArrData(stor[mat].shape), lda,
                                           ArrData(stor[mat].shape)[1])
  ELSE dense_storage_is_symmetric_value(mat, lda)

dense_storage_is_hermitian(mat, lda) ==
  /\ LiveStor(mat)
  /\ stor[mat].rank = 2
  /\ ret' = [op |-> "is_hermitian", s |-> mat, lda |-> lda,
             val |-> dense_storage_is_hermitian_value(mat, lda)]
  /\ UNCHANGED <<stor, arrs, bufs, slices>>

dense_storage_is_symmetric(mat, lda) ==
  /\ LiveStor(mat)
  /\ stor[mat].rank = 2
  /\ ret' = [op |-> "is_symmetric", s |-> mat, lda |-> lda,
             val |-> dense_storage_is_symmetric_value(mat, lda)]
  /\ UNCHANGED <<stor, arrs, bufs, slices>>

(***************************************************************************)
(* Structural predicates on square matrices.                               *)
(***************************************************************************)
\* complex entries: 0, i, -i, 1
HermValues == { [r |-> F_PZERO, i |-> F_PZERO], [r |-> F_PZERO, i |-> F_ONE],
                [r |-> F_PZERO, i |-> F_MONE],  [r |-> F_ONE, i |-> F_PZERO] }

HermCreate ==
  \/ \E pay \in SeqsOfLen(HermValues, 4) :
       stor = <<>> /\ Create("COMPLEX64", <<2, 2>>, pay)
  \/ \E pay \in SeqsOfLen({1, 2}, 4) :
       stor = <<>> /\ Create("BYTE", <<2, 2>>, pay)
HermTest ==
  \E m \in 1..Len(stor) :
    ret.op = "create" /\ dense_storage_is_hermitian(m, ArrData(stor[m].shape)[2])
HermSymTest ==
  \E m \in 1..Len(stor) :
    ret.op = "create" /\ dense_storage_is_symmetric(m, ArrData(stor[m].shape)[2])

HermNext == HermCreate \/ HermTest \/ HermSymTest

SpecHerm == Init /\ [][HermNext]_vars

\* the 2x2 matrix [[0, i], [-i, 0]] was tested
C6_Case ==
  /\ ret.op = "is_hermitian"
  /\ IsComplex(stor[ret.s].dtype)
  /\ ReadEl("COMPLEX64", BufData(stor[ret.s].elements), 1, 0) = [r |-> F_PZERO, i |-> F_ONE]
  /\ ReadEl("COMPLEX64", BufData(stor[ret.s].elements), 2, 0) = [r |-> F_PZERO, i |-> F_MONE]

\* C6: for a complex matrix dense_storage_is_hermitian is true exactly when
\* every element above the diagonal equals the conjugate of its mirror image
\* elements[j*ld+i].
C6_Hermitian ==
  (ret.op = "is_hermitian" /\ IsComplex(stor[ret.s].dtype)) =>
    LET shape == ArrData(stor[ret.s].shape)
        data == BufData(stor[ret.s].elements)
        el(k) == ReadEl("COMPLEX64", data, k, 0)
    IN ret.val =
         (\A i \in 0..(shape[1] - 1) : \A j \in (i + 1)..(shape[2] - 1) :
            ~ElNe("COMPLEX64", el(i * ret.lda + j), Conj(el(j * ret.lda + i))))

(***************************************************************************)
(* dense_storage_cast_copy, dense_storage_copy                             *)
(***************************************************************************)
\* The entry [l][r] of a paired-dtype table built from a template
\* fun<A, B>: the template instantiated with l for A and r for B.
LR_DTYPE_TEMPLATE_TABLE(l, r) == <<l, r>>

\* assignment of a DType value to a NewDType lvalue (integer dtypes)
Convert(NewDType, v) == Decode(NewDType, Encode(NewDType, v))

\* while (count-- > 0) lhs_els[count] = rhs_els[count];
\* rhs_els is a DType*, lhs_els a NewDType*
RECURSIVE dense_storage_cast_copy_loop(_, _, _, _, _, _)
dense_storage_cast_copy_loop(DType, NewDType, rhs_data, lhs_data, count, g) ==
  IF count > 0
  THEN dense_storage_cast_copy_loop(
         DType, NewDType, rhs_data,
         WriteEl(NewDType, lhs_data, count - 1,
                 Convert(NewDType, ReadEl(DType, rhs_data, count - 1, g))),
         count - 1, g)
  ELSE lhs_data

\* The heap after dense_storage_cast_copy_template<DType, NewDType>(rhs,
\* new_dtype), and the new root.
dense_storage_cast_copy_template(DType, NewDType, rhs, new_dtype, g) ==
  LET rank  == stor[rhs].rank
      count == storage_count_max_elements(rank, ArrData(stor[rhs].shape))
      shape == Len(arrs) + 1
      ar0   == Append(arrs, [frees |-> 0,
                             data |-> [p \in 1..rank |-> ArrData(stor[rhs].shape)[p]]])
      h     == dense_storage_create(stor, ar0, bufs, new_dtype, shape, rank, NULL, 0, g)
      lhs   == h.s
      rhs_data == BufData(stor[rhs].elements)
      lhs_data == h.bufs[h.stor[lhs].elements].data
  IN IF count # 0
     THEN [h EXCEPT !.bufs[h.stor[lhs].elements].data =
             IF h.stor[lhs].dtype = stor[rhs].dtype
             THEN Memcpy(lhs_data, 0, rhs_data, 0,
                         DTYPE_SIZES(stor[rhs].dtype) * count, g)
             ELSE dense_storage_cast_copy_loop(DType, NewDType, rhs_data,
                                               lhs_data, count, g)]
     ELSE h

\* the template arguments dense_storage_cast_copy's table lookup
\* ttable[new_dtype][rhs->dtype] selects
dense_storage_cast_copy_entry(rhs_dtype, new_dtype) ==
  LR_DTYPE_TEMPLATE_TABLE(new_dtype, rhs_dtype)

dense_storage_cast_copy(rhs, new_dtype) ==
  /\ LiveStor(rhs)
  /\ Len(stor) < MaxStor
  /\ \E g \in GarbageByte :
       LET e == dense_storage_cast_copy_entry(stor[rhs].dtype, new_dtype)
           h == dense_storage_cast_copy_template(e[1], e[2], rhs, new_dtype, g)
       IN /\ stor' = h.stor
          /\ arrs' = h.arrs
          /\ bufs' = h.bufs
          /\ ret' = [op |-> "cast_copy", rhs |-> rhs, lhs |-> h.s]
  /\ UNCHANGED slices

(***************************************************************************)
(* Casting between the integer dtypes.                                     *)
(***************************************************************************)
CastDtypes == {"BYTE", "INT16"}
CastValues(dt) == IF dt = "BYTE" THEN {0, 1, 2, 255} ELSE {1, 255, 258, -2}

CastCreate ==
  \E dt \in CastDtypes, n \in 0..EqMaxCount :
    \E pay \in SeqsOfLen(CastValues(dt), n) :
      /\ stor = <<>>
      /\ Create(dt, <<n>>, pay)
CastCopy ==
  \E rhs \in 1..Len(stor), new_dtype \in CastDtypes :
    /\ ret.op = "create"
    /\ dense_storage_cast_copy(rhs, new_dtype)

CastNext == CastCreate \/ CastCopy

SpecCast == Init /\ [][CastNext]_vars

\* C7: a cast to another dtype gives a root of the new dtype and the same
\* shape whose element i, read as the new dtype, is the conversion of the
\* source's element i read as the source's dtype.
C7_CastCopy ==
  (ret.op = "cast_copy" /\ stor[ret.lhs].dtype # stor[ret.rhs].dtype) =>
    LET rdt == stor[ret.rhs].dtype
        ldt == stor[ret.lhs].dtype
        rhs_data == BufData(stor[ret.rhs].elements)
        lhs_data == BufData(stor[ret.lhs].elements)
    IN /\ IsRoot(ret.lhs)
       /\ ArrData(stor[ret.lhs].shape) = ArrData(stor[ret.rhs].shape)
       /\ Len(lhs_data) = DTYPE_SIZES(ldt) * CountOf(ret.rhs)
       /\ \A i \in 0..(CountOf(ret.rhs) - 1) :
            Decode(ldt, SubSeq(lhs_data, i * DTYPE_SIZES(ldt) + 1,
                               (i + 1) * DTYPE_SIZES(ldt)))
              = Convert(ldt, Decode(rdt, SubSeq(rhs_data, i * DTYPE_SIZES(rdt) + 1,
                                                (i + 1) * DTYPE_SIZES(rdt))))

\* a case of C7: 16-bit elements 1 and 258 were cast to bytes
C7_Case ==
  /\ ret.op = "cast_copy"
  /\ stor[ret.rhs].dtype = "INT16"
  /\ stor[ret.lhs].dtype = "BYTE"
  /\ BufData(stor[ret.rhs].elements) = <<1, 0, 2, 1>>

\* a copy that takes rhs's element buffer instead of copying it
dense_storage_copy_heap_shallow(rhs, g) ==
  LET rank  == stor[rhs].rank
      shape == Len(arrs) + 1
      ar0   == Append(arrs, [frees |-> 0,
                             data |-> [p \in 1..rank |-> ArrData(stor[rhs].shape)[p]]])
      h     == dense_storage_create(stor, ar0, bufs, stor[rhs].dtype, shape, rank,
                                    NULL, 0, g)
  IN [h EXCEPT !.stor[h.s].elements = stor[rhs].elements]

\* The heap after dense_storage_copy(rhs), and the new root.
dense_storage_copy_heap(rhs, g) ==
  LET rank  == stor[rhs].rank
      count == storage_count_max_elements(rank, ArrData(stor[rhs].shape))
      shape == Len(arrs) + 1
      ar0   == Append(arrs, [frees |-> 0,
                             data |-> [p \in 1..rank |-> ArrData(stor[rhs].shape)[p]]])
      h     == dense_storage_create(stor, ar0, bufs, stor[rhs].dtype, shape, rank,
                                    NULL, 0, g)
      lhs   == h.s
  IN IF count # 0
     THEN [h EXCEPT !.bufs[h.stor[lhs].elements].data =
             Memcpy(@, 0, BufData(stor[rhs].elements), 0,
                    DTYPE_SIZES(stor[rhs].dtype) * count, g)]
     ELSE h

dense_storage_copy(rhs) ==
  /\ LiveStor(rhs)
  /\ Len(stor) < MaxStor
  /\ \E g \in GarbageByte :
       LET h == dense_storage_copy_heap(rhs, g)
       IN /\ stor' = h.stor
          /\ arrs' = h.arrs
          /\ bufs' = h.bufs
          /\ ret' = [op |-> "copy", rhs |-> rhs, lhs |-> h.s]
  /\ UNCHANGED slices

(***************************************************************************)
(* dense_storage_eqeq                                                      *)
(***************************************************************************)
\* operator!= of an LDType and an RDType value: integers are compared after
\* the usual promotion to int
ElNe2(LDType, RDType, a, b) ==
  CASE LDType \in {"BYTE", "INT16"} /\ RDType \in {"BYTE", "INT16"} -> a # b
    [] LDType = RDType -> ElNe(LDType, a, b)

\* the comparison loop stopping before index 0
dense_storage_eqeq_start_short(count) == count - 2

\* the first index the comparison loop reads, given the element count
dense_storage_eqeq_start(count) == count - 1

\* for (index = count; index-- > 0;) if (left_els[index] != right_els[index]) return false;
RECURSIVE dense_storage_eqeq_loop(_, _, _, _, _, _)
dense_storage_eqeq_loop(LDType, RDType, left_data, right_data, index, g) ==
  IF index >= 0
  THEN IF ElNe2(LDType, RDType, ReadEl(LDType, left_data, index, g),
                ReadEl(RDType, right_data, index, g))
       THEN FALSE
       ELSE dense_storage_eqeq_loop(LDType, RDType, left_data, right_data, index - 1, g)
  ELSE TRUE

\* the element count the comparison runs over: that of left
dense_storage_eqeq_count(left, right) ==
  storage_count_max_elements(stor[left].rank, ArrData(stor[left].shape))

dense_storage_eqeq_template(LDType, RDType, left, right, g) ==
  dense_storage_eqeq_loop(LDType, RDType, BufData(stor[left].elements),
                          BufData(stor[right].elements),
                          dense_storage_eqeq_start(dense_storage_eqeq_count(left, right)),
                          g)

\* the value dense_storage_eqeq(left, right) returns:
\* ttable[left->dtype][right->dtype](left, right)
dense_storage_eqeq_value(left, right, g) ==
  LET e == LR_DTYPE_TEMPLATE_TABLE(stor[left].dtype, stor[right].dtype)
  IN dense_storage_eqeq_template(e[1], e[2], left, right, g)

dense_storage_eqeq(left, right) ==
  /\ LiveStor(left)
  /\ LiveStor(right)
  /\ \E g \in GarbageByte :
       ret' = [op |-> "eqeq", left |-> left, right |-> right,
               val |-> dense_storage_eqeq_value(left, right, g)]
  /\ UNCHANGED <<stor, arrs, bufs, slices>>

(***************************************************************************)
(* Equality of two roots.                                                  *)
(***************************************************************************)
EqDtypes == {"BYTE", "INT16", "FLOAT32"}
EqValues(dt) ==
  CASE dt = "BYTE"    -> {1, 255}
    [] dt = "INT16"   -> {1, -1}
    [] dt = "FLOAT32" -> {F_PZERO, F_NZERO, F_NAN}

\* the dtype pairs whose comparison is modelled
Comparable(ldt, rdt) == ldt = rdt \/ {ldt, rdt} \subseteq {"BYTE", "INT16"}

EqCreate ==
  \E dt \in EqDtypes, n \in 0..EqMaxCount :
    \E pay \in SeqsOfLen(EqValues(dt), n) :
      /\ Len(stor) < 2
      /\ Create(dt, <<n>>, pay)
\* the caller compares storages of which right has at least left's elements
EqTest ==
  \E left, right \in 1..Len(stor) :
    /\ (Comparable(stor[left].dtype, stor[right].dtype) \/ CountOf(left) = 0)
    /\ CountOf(right) >= CountOf(left)
    /\ ret.op = "create"
    /\ dense_storage_eqeq(left, right)

EqNext == EqCreate \/ EqTest

SpecEq == Init /\ [][EqNext]_vars

\* element i of storage s, read as its dtype
ElOf(s, i) == ReadEl(stor[s].dtype, BufData(stor[s].elements), i, 0)

\* C9: dense_storage_eqeq is true exactly when every element of left equals
\* the element of right at the same index, over the element count of left
\* alone: with no elements it is true whatever the dtypes and whatever right
\* holds.
C9_Eqeq ==
  ret.op = "eqeq" =>
    /\ ret.val =
         (\A i \in 0..(CountOf(ret.left) - 1) :
            ~ElNe2(stor[ret.left].dtype, stor[ret.right].dtype,
                   ElOf(ret.left, i), ElOf(ret.right, i)))
    /\ CountOf(ret.left) = 0 => ret.val

\* a byte storage equal to the first element of a longer 16-bit storage
C9_Witness ==
  /\ ret.op = "eqeq"
  /\ ret.val
  /\ stor[ret.left].dtype = "BYTE"
  /\ stor[ret.right].dtype = "INT16"
  /\ CountOf(ret.left) = 1
  /\ CountOf(ret.right) = 2
  /\ ElOf(ret.right, 1) # ElOf(ret.right, 0)

\* an empty storage compared with a non-empty one of another dtype
C9_Empty ==
  /\ ret.op = "eqeq"
  /\ ret.val
  /\ CountOf(ret.left) = 0
  /\ CountOf(ret.right) > 0
  /\ stor[ret.left].dtype = "FLOAT32"
  /\ stor[ret.right].dtype = "BYTE"

(***************************************************************************)
(* Copying a root, then writing to the original and to the copy.           *)
(***************************************************************************)
CopyCreate ==
  \E dt \in EqDtypes, n \in 0..EqMaxCount :
    \E pay \in SeqsOfLen(EqValues(dt), n) :
      /\ stor = <<>>
      /\ Create(dt, <<n>>, pay)
CopyCopy == Len(stor) = 1 /\ dense_storage_copy(1)
CopySet ==
  \E s \in 1..Len(stor), k \in 0..(EqMaxCount - 1) :
    \E val \in EqValues(stor[s].dtype) :
      /\ Len(stor) = 2
      /\ dense_storage_set(s, <<k>>, val)
CopyEq == Len(stor) = 2 /\ dense_storage_eqeq(1, 2)

CopyNext == CopyCreate \/ CopyCopy \/ CopySet \/ CopyEq

SpecCopy == Init /\ [][CopyNext]_vars

\* every element of s compares equal to itself
SelfEqual(s) ==
  \A i \in 0..(CountOf(s) - 1) : ~ElNe(stor[s].dtype, ElOf(s, i), ElOf(s, i))

\* what holds of the copy in the state dense_storage_copy returns in, but
\* for the value of dense_storage_eqeq
CopyShape ==
  /\ IsRoot(ret.lhs)
  /\ LiveStor(ret.lhs)
  /\ stor[ret.lhs].dtype = stor[ret.rhs].dtype
  /\ stor[ret.lhs].rank = stor[ret.rhs].rank
  /\ ArrData(stor[ret.lhs].shape) = ArrData(stor[ret.rhs].shape)
  /\ stor[ret.lhs].shape # stor[ret.rhs].shape
  /\ stor[ret.lhs].count = 1
  /\ stor[ret.lhs].src = ret.lhs
  /\ BufData(stor[ret.lhs].elements) = BufData(stor[ret.rhs].elements)
  /\ CountOf(ret.rhs) > 0 =>
       /\ stor[ret.lhs].elements # stor[ret.rhs].elements
       /\ Live(bufs, stor[ret.lhs].elements)
  /\ CountOf(ret.rhs) = 0 => stor[ret.lhs].elements = NULL

\* a dense_storage_set on one of the two storages leaves the other's
\* elements as they were
SetIsLocal ==
  (Len(stor) = 2 /\ ret'.op = "set") =>
    \A s \in 1..2 : s # ret'.s =>
      BufData(stor[s].elements)' = BufData(stor[s].elements)

\* C8 as stated: the copy is a root of the same dtype, rank and shape with
\* count 1 and itself as src, its buffer is another one, and
\* dense_storage_eqeq of the original and the copy is true.
C8_CopyEqual ==
  ret.op = "copy" =>
    /\ CopyShape
    /\ dense_storage_eqeq_value(ret.rhs, ret.lhs, 0)

\* C8 as amended: the copy is a root of the same dtype, rank and shape with
\* count 1 and itself as src, its buffer is another one holding the same
\* bytes, dense_storage_eqeq of the original and the copy is true exactly
\* when every element of the original equals itself (no NaN), and a
\* dense_storage_set on either leaves the other unchanged.
C8_Copy ==
  /\ [](ret.op = "copy" =>
          /\ CopyShape
          /\ dense_storage_eqeq_value(ret.rhs, ret.lhs, 0) = SelfEqual(ret.rhs))
  /\ [][SetIsLocal]_vars

\* the copy was written to and the original still holds what it held
C8_Witness ==
  /\ Len(stor) = 2
  /\ ret.op = "set"
  /\ ret.s = 2
  /\ stor[1].dtype = "INT16"
  /\ BufData(stor[1].elements) = <<1, 0, 1, 0>>
  /\ BufData(stor[2].elements) = <<1, 0, 255, 255>>
====
